---- MODULE Spec2Model ----
(***************************************************************************)
(* Model of src/script.js: the browser-side controller of the crowdScope   *)
(* dashboard.  The state is the closure of the DOMContentLoaded callback   *)
(* (isRunning, statusInterval), the properties of the DOM elements the     *)
(* script writes, the browser's table of active interval timers, and the   *)
(* async calls suspended at their awaits.  A step is one task of the event *)
(* loop: a click handler, an error handler, a timer callback, or the       *)
(* continuation of an async function after its fetch settled.              *)
(***************************************************************************)
EXTENDS Naturals, Sequences, FiniteSets

VARIABLES
    isRunning,          \* script.js:21
    statusInterval,     \* script.js:22, NULL or the id setInterval returned
    activeTimers,       \* the browser's interval timers that will still fire
    dueTimers,          \* those of them whose interval has elapsed
    quietInterval,      \* no /status fetch was issued within the last interval
    videoSrc,           \* videoFeed.src
    headCount,          \* headCount.textContent
    recordingStatus,    \* recordingStatus.textContent
    statusIndicator,    \* statusIndicator.className
    statusText,         \* statusText.textContent
    motionStatus,       \* motionStatus.textContent
    recordingsList,     \* children of recordingsList, in document order
    statusPending,      \* updateStatus calls suspended at lines 49-50
    statusStale,        \* those of them called before a call already applied
    recordingsPending,  \* fetchRecordings calls suspended at lines 78-79
    outputFolderDefined,\* whether the page defines the global OUTPUT_FOLDER
    uncaught,           \* an error left a handler or an async function
    lastOp,             \* the event-loop task that produced this state
    lastData,           \* <<d>>: the /status body that task applied, else << >>
    lastRecordings,     \* <<r>>: the /recordings body that task rendered
    lastError,          \* how the fetch that task continued had failed, or ""
    lastStale,          \* that task applied a body fetched before the one shown
    issued              \* number of /status fetches that task issued

display == <<headCount, recordingStatus, statusIndicator, statusText, motionStatus>>
control == <<isRunning, statusInterval, activeTimers, videoSrc>>
clock == <<dueTimers, quietInterval>>
history == <<lastOp, lastData, lastRecordings, lastError, lastStale, issued>>
vars == <<control, clock, display, recordingsList, statusPending, statusStale,
          recordingsPending,
          outputFolderDefined, uncaught, history>>

----------------------------------------------------------------------------
(* Bounds of the model *)

MaxStatusInFlight == 2
MaxRecordingsInFlight == 2
MaxRecordings == 2
MaxTimerId == 2

----------------------------------------------------------------------------
(* Constants of the script and of the page *)

NULL == 0
VIDEO_FEED_URL == "origin/video_feed"
MARKUP == "(page markup)"
OUTPUT_FOLDER == <<"o", "u", "t">>

Digits == {"0", "1", "2", "3", "4", "5", "6", "7", "8", "9"}

----------------------------------------------------------------------------
(* JSON values of a /status body, and their conversions *)

JTrue == [type |-> "boolean", val |-> "true"]
JFalse == [type |-> "boolean", val |-> "false"]
JOne == [type |-> "number", val |-> "1"]
JZero == [type |-> "number", val |-> "0"]

\* ToBoolean, as the condition of `if (data.recording)` applies it
Truthy(j) ==
    CASE j.type = "boolean" -> j.val = "true"
      [] j.type = "number" -> j.val \notin {"0", "NaN"}
      [] j.type = "string" -> j.val # ""
      [] OTHER -> FALSE

\* the string a number becomes when it is assigned to textContent
NumberToString(n) ==
    IF n < 10 THEN <<"0", "1", "2", "3", "4", "5", "6", "7", "8", "9">>[n + 1]
    ELSE "many"

RecordingValues == {JTrue, JFalse, JOne, JZero}

R_idle == [headCount |-> 0, status |-> "Monitoring", motionStatus |-> "No Motion"]
R_motion ==
    [headCount |-> 2, status |-> "Motion Detected", motionStatus |-> "Motion Detected"]

Readings == {R_idle, R_motion}

\* the object with the fields of reading r and the recording field j
Body(r, j) ==
    [headCount |-> r.headCount, recording |-> j, status |-> r.status,
     motionStatus |-> r.motionStatus]

\* the objects a /status body parses to: each reading with a truthy and
\* with a falsy recording field, each recording value once
StatusBodies ==
    {Body(R_idle, JTrue), Body(R_idle, JZero), Body(R_motion, JFalse), Body(R_motion, JOne)}

\* the ways the two awaits of a fetch end in the catch block: the fetch
\* rejects, response.json() rejects, or the body is the JSON value null,
\* whose first property access raises a TypeError
FetchFailures == {"network", "notjson", "nulljson"}

----------------------------------------------------------------------------
(* Filenames of a /recordings body, as sequences of characters *)

F_motion ==
    <<"m", "o", "t", "i", "o", "n", "_", "2", "0", "2", "4", "0", "1", "1", "5",
      "_", "1", "4", "3", "0", "2", "2", ".", "a", "v", "i">>
F_clip == <<"c", "l", "i", "p", "1", ".", "a", "v", "i">>
F_backup == <<"x", "_">> \o F_motion \o <<".", "b", "a", "k">>

Filenames == {F_motion, F_clip, F_backup}

RECURSIVE SeqsUpTo(_, _)
SeqsUpTo(S, n) ==
    IF n = 0 THEN {<< >>}
    ELSE LET shorter == SeqsUpTo(S, n - 1)
         IN shorter \cup {Append(q, x) : q \in {p \in shorter : Len(p) = n - 1}, x \in S}

\* the arrays a /recordings body parses to: listings of a folder, in which
\* no name occurs twice
RecordingsBodies ==
    {q \in SeqsUpTo(Filenames, MaxRecordings) :
        \A i, j \in 1..Len(q) : q[i] = q[j] => i = j}

\* /motion_(\d{8})_(\d{6})\.avi/ matching at offset i (1-based) of s
MatchAt(s, i) ==
    /\ i + 25 <= Len(s)
    /\ SubSeq(s, i, i + 6) = <<"m", "o", "t", "i", "o", "n", "_">>
    /\ \A k \in 7..14 : s[i + k] \in Digits
    /\ s[i + 15] = "_"
    /\ \A k \in 16..21 : s[i + k] \in Digits
    /\ SubSeq(s, i + 22, i + 25) = <<".", "a", "v", "i">>

\* recording.match(...): << >> for null, else <<group 1, group 2>> of the
\* leftmost match (the pattern is not anchored)
dateMatch(recording) ==
    LET offsets == {i \in 1..Len(recording) : MatchAt(recording, i)}
    IN IF offsets = {} THEN << >>
       ELSE LET i == CHOOSE o \in offsets : \A o2 \in offsets : o <= o2
            IN <<SubSeq(recording, i + 7, i + 14), SubSeq(recording, i + 16, i + 21)>>

\* a title with the day before the month
dateStr_DayFirst(recording) ==
    LET m == dateMatch(recording)
    IN IF m = << >> THEN recording
       ELSE LET year == SubSeq(m[1], 1, 4)
                month == SubSeq(m[1], 5, 6)
                day == SubSeq(m[1], 7, 8)
                hour == SubSeq(m[2], 1, 2)
                minute == SubSeq(m[2], 3, 4)
                second == SubSeq(m[2], 5, 6)
            IN year \o <<"-">> \o day \o <<"-">> \o month \o <<" ">>
               \o hour \o <<":">> \o minute \o <<":">> \o second

\* the title of an entry
dateStr(recording) ==
    LET m == dateMatch(recording)
    IN IF m = << >> THEN recording
       ELSE LET year == SubSeq(m[1], 1, 4)
                month == SubSeq(m[1], 5, 6)
                day == SubSeq(m[1], 7, 8)
                hour == SubSeq(m[2], 1, 2)
                minute == SubSeq(m[2], 3, 4)
                second == SubSeq(m[2], 5, 6)
            IN year \o <<"-">> \o month \o <<"-">> \o day \o <<" ">>
               \o hour \o <<":">> \o minute \o <<":">> \o second

\* the target of an entry's download button
downloadHref(recording) == <<"/">> \o OUTPUT_FOLDER \o <<"/">> \o recording

\* child nodes of the list: a <p> with a text, or a div.recording-item
Paragraph(t) == [tag |-> "p", text |-> t, title |-> << >>, href |-> << >>]
recordingItem(recording) ==
    [tag |-> "div", text |-> "", title |-> dateStr(recording),
     href |-> downloadHref(recording)]

NoRecordingsFound == <<Paragraph("No recordings found.")>>
ErrorLoadingRecordings == <<Paragraph("Error loading recordings.")>>

\* a catch block that appends the message instead of assigning it
fetchRecordingsCatch_Appends(current) == current \o ErrorLoadingRecordings

\* the catch block of fetchRecordings (lines 121-124): assigning innerHTML
\* replaces whatever children the list has
fetchRecordingsCatch(current) == ErrorLoadingRecordings

\* lines 81-124 without line 85: an empty array leaves the list empty
RenderRecordings_NoPlaceholder(recordings, folderDefined) ==
    IF Len(recordings) = 0 THEN << >>
    ELSE IF ~folderDefined THEN ErrorLoadingRecordings
    ELSE [i \in 1..Len(recordings) |-> recordingItem(recordings[i])]

\* lines 81-124 without line 82: the entries are appended to the old content
RenderRecordings_KeepsOld(recordings, folderDefined) ==
    IF Len(recordings) = 0 THEN NoRecordingsFound
    ELSE IF ~folderDefined THEN ErrorLoadingRecordings
    ELSE recordingsList \o [i \in 1..Len(recordings) |-> recordingItem(recordings[i])]

\* lines 81-124 for a body that is an array of strings: the list is
\* cleared; an empty array gives the placeholder; otherwise one item per
\* filename is appended in order.  Building the first item evaluates
\* OUTPUT_FOLDER: where the page defines no such global, that raises a
\* ReferenceError before anything is appended, and the catch block
\* replaces the content by the error message.
RenderRecordings(recordings, folderDefined) ==
    IF Len(recordings) = 0 THEN NoRecordingsFound
    ELSE IF ~folderDefined THEN fetchRecordingsCatch(<< >>)
    ELSE [i \in 1..Len(recordings) |-> recordingItem(recordings[i])]

----------------------------------------------------------------------------
(* The functions of the script.  Each is part of the handler that calls   *)
(* it; the primed variables it does not mention are set by that handler.  *)

\* setInterval: an id no active timer has (the smallest, the ids of
\* cleared timers being held nowhere)
setInterval(timers) ==
    CHOOSE id \in 1..MaxTimerId :
        id \notin timers /\ \A j \in 1..MaxTimerId : j \notin timers => id <= j

\* clearInterval
clearInterval(timers, id) == timers \ {id}

\* The suspended updateStatus calls, in the order they were called, are
\* numbered 1..statusPending; the first statusStale of them were called
\* before a call whose body has been applied since.  When call i resumes
\* and applies its body, the calls before it become stale; nothing in
\* lines 47-73 records the order of the calls.
StaleAfterApplying(i) == IF i <= statusStale THEN statusStale - 1 ELSE i - 1

\* when call i resumes in the catch block, nothing is applied
StaleAfterFailing(i) == IF i <= statusStale THEN statusStale - 1 ELSE statusStale

\* updateStatus up to its first await (line 49): the fetch is issued and
\* the call is suspended; the rest runs in StatusResolved/StatusRejected
updateStatus ==
    /\ statusPending < MaxStatusInFlight
    /\ statusPending' = statusPending + 1
    /\ UNCHANGED statusStale
    /\ issued' = 1
    /\ quietInterval' = FALSE

\* startStatusUpdates without the immediate call of line 32
startStatusUpdates_NoImmediateFetch ==
    LET cleared == IF statusInterval # NULL
                   THEN clearInterval(activeTimers, statusInterval)
                   ELSE activeTimers
    IN /\ cleared # 1..MaxTimerId
       /\ UNCHANGED <<statusPending, statusStale, quietInterval>>
       /\ issued' = 0
       /\ statusInterval' = setInterval(cleared)
       /\ activeTimers' = cleared \cup {setInterval(cleared)}
       /\ dueTimers' = dueTimers \cap cleared

\* lines 25-36
startStatusUpdates ==
    LET cleared == IF statusInterval # NULL
                   THEN clearInterval(activeTimers, statusInterval)
                   ELSE activeTimers
    IN /\ cleared # 1..MaxTimerId
       /\ updateStatus
       /\ statusInterval' = setInterval(cleared)
       /\ activeTimers' = cleared \cup {setInterval(cleared)}
       /\ dueTimers' = dueTimers \cap cleared

\* stopStatusUpdates without line 42: the handle is kept
stopStatusUpdates_KeepsHandle ==
    IF statusInterval # NULL
    THEN /\ activeTimers' = clearInterval(activeTimers, statusInterval)
         /\ dueTimers' = clearInterval(dueTimers, statusInterval)
         /\ UNCHANGED statusInterval
    ELSE UNCHANGED <<activeTimers, dueTimers, statusInterval>>

\* stopStatusUpdates without line 41: the timer is never cleared
stopStatusUpdates_KeepsTimer ==
    IF statusInterval # NULL
    THEN /\ UNCHANGED <<activeTimers, dueTimers>>
         /\ statusInterval' = NULL
    ELSE UNCHANGED <<activeTimers, dueTimers, statusInterval>>

\* lines 39-44
stopStatusUpdates ==
    IF statusInterval # NULL
    THEN /\ activeTimers' = clearInterval(activeTimers, statusInterval)
         /\ dueTimers' = clearInterval(dueTimers, statusInterval)
         /\ statusInterval' = NULL
    ELSE UNCHANGED <<activeTimers, dueTimers, statusInterval>>

\* lines 52-68 without line 61: the else branch leaves the indicator alone
applyStatus_IndicatorStuck(data) ==
    /\ headCount' = NumberToString(data.headCount)
    /\ IF Truthy(data.recording)
       THEN /\ recordingStatus' = "Recording"
            /\ statusIndicator' = "status-indicator recording"
       ELSE /\ recordingStatus' = "Not Recording"
            /\ UNCHANGED statusIndicator
    /\ statusText' = data.status
    /\ motionStatus' = data.motionStatus

\* lines 52-68: the body of updateStatus after both awaits, for body data
applyStatus(data) ==
    /\ headCount' = NumberToString(data.headCount)
    /\ IF Truthy(data.recording)
       THEN /\ recordingStatus' = "Recording"
            /\ statusIndicator' = "status-indicator recording"
       ELSE /\ recordingStatus' = "Not Recording"
            /\ statusIndicator' = "status-indicator monitoring"
    /\ statusText' = data.status
    /\ motionStatus' = data.motionStatus

\* a catch block that also reports the failure in the status line
updateStatusCatch_ShowsError ==
    /\ statusText' = "Connection Error"
    /\ UNCHANGED <<headCount, recordingStatus, statusIndicator, motionStatus>>
    /\ UNCHANGED uncaught

\* lines 70-72: the catch block of updateStatus logs and returns
updateStatusCatch ==
    /\ UNCHANGED display
    /\ UNCHANGED uncaught

\* fetchRecordings up to its first await (line 78)
fetchRecordings ==
    /\ recordingsPending < MaxRecordingsInFlight
    /\ recordingsPending' = recordingsPending + 1

\* lines 153-158 without line 157
showStopped_KeepsHeadCount ==
    /\ statusText' = "Stopped"
    /\ statusIndicator' = "status-indicator monitoring"
    /\ recordingStatus' = "Not Recording"
    /\ UNCHANGED headCount
    /\ motionStatus' = "System Stopped"

\* lines 153-158 without line 155
showStopped_KeepsIndicator ==
    /\ statusText' = "Stopped"
    /\ UNCHANGED statusIndicator
    /\ recordingStatus' = "Not Recording"
    /\ headCount' = "0"
    /\ motionStatus' = "System Stopped"

\* lines 153-158
showStopped ==
    /\ statusText' = "Stopped"
    /\ statusIndicator' = "status-indicator monitoring"
    /\ recordingStatus' = "Not Recording"
    /\ headCount' = "0"
    /\ motionStatus' = "System Stopped"

----------------------------------------------------------------------------
(* The state when the DOMContentLoaded callback has run lines 3-22 *)

Init ==
    /\ isRunning = TRUE
    /\ statusInterval = NULL
    /\ activeTimers = {}
    /\ dueTimers = {}
    /\ quietInterval = TRUE
    /\ videoSrc = MARKUP
    /\ headCount = MARKUP
    /\ recordingStatus = MARKUP
    /\ statusIndicator = MARKUP
    /\ statusText = MARKUP
    /\ motionStatus = MARKUP
    /\ recordingsList = <<Paragraph(MARKUP)>>
    /\ statusPending = 0
    /\ statusStale = 0
    /\ recordingsPending = 0
    /\ outputFolderDefined \in BOOLEAN
    /\ uncaught = FALSE
    /\ lastOp = "load"
    /\ lastData = << >>
    /\ lastRecordings = << >>
    /\ lastError = ""
    /\ lastStale = FALSE
    /\ issued = 0

Note(op) ==
    /\ lastOp' = op
    /\ lastData' = << >>
    /\ lastRecordings' = << >>
    /\ lastError' = ""
    /\ lastStale' = FALSE

Ready == lastOp # "load"

----------------------------------------------------------------------------
(* The tasks of the event loop *)

\* lines 128-169, run once by line 172
init ==
    /\ lastOp = "load"
    /\ videoSrc' = VIDEO_FEED_URL
    /\ startStatusUpdates
    /\ fetchRecordings
    /\ Note("init")
    /\ UNCHANGED <<isRunning, display, recordingsList, outputFolderDefined, uncaught>>

\* a start handler without the test of line 140
startBtnClick_Unguarded ==
    /\ Ready
    /\ videoSrc' = VIDEO_FEED_URL
    /\ startStatusUpdates
    /\ isRunning' = TRUE
    /\ Note("start")
    /\ UNCHANGED <<display, recordingsList, recordingsPending, outputFolderDefined,
                   uncaught>>

\* lines 139-145
startBtnClick ==
    /\ Ready
    /\ IF ~isRunning
       THEN /\ videoSrc' = VIDEO_FEED_URL
            /\ startStatusUpdates
            /\ isRunning' = TRUE
            /\ Note("start")
       ELSE /\ Note("startNoop")
            /\ issued' = 0
            /\ UNCHANGED <<control, clock, statusPending, statusStale>>
    /\ UNCHANGED <<display, recordingsList, recordingsPending, outputFolderDefined,
                   uncaught>>

\* lines 147-160
stopBtnClick ==
    /\ Ready
    /\ IF isRunning
       THEN /\ videoSrc' = ""
            /\ stopStatusUpdates
            /\ isRunning' = FALSE
            /\ showStopped
            /\ Note("stop")
       ELSE /\ Note("stopNoop")
            /\ UNCHANGED <<control, dueTimers, display>>
    /\ issued' = 0
    /\ UNCHANGED <<quietInterval, recordingsList, statusPending, statusStale, recordingsPending,
                   outputFolderDefined, uncaught>>

\* line 162
refreshBtnClick ==
    /\ Ready
    /\ fetchRecordings
    /\ Note("refresh")
    /\ issued' = 0
    /\ UNCHANGED <<control, clock, display, recordingsList, statusPending, statusStale,
                   outputFolderDefined, uncaught>>

\* an error handler that also blanks the source
videoFeedError_BlanksSource ==
    /\ Ready
    /\ statusText' = "Connection Error"
    /\ videoSrc' = ""
    /\ Note("videoError")
    /\ issued' = 0
    /\ UNCHANGED <<isRunning, statusInterval, activeTimers, clock, headCount, recordingStatus,
                   statusIndicator, motionStatus, recordingsList, statusPending, statusStale,
                   recordingsPending, outputFolderDefined, uncaught>>

\* an error handler that also stops the polling
videoFeedError_StopsPolling ==
    /\ Ready
    /\ statusText' = "Connection Error"
    /\ stopStatusUpdates
    /\ isRunning' = FALSE
    /\ Note("videoError")
    /\ issued' = 0
    /\ UNCHANGED <<videoSrc, quietInterval, headCount, recordingStatus, statusIndicator,
                   motionStatus, recordingsList, statusPending, statusStale, recordingsPending,
                   outputFolderDefined, uncaught>>

\* lines 165-168
videoFeedError ==
    /\ Ready
    /\ statusText' = "Connection Error"
    /\ Note("videoError")
    /\ issued' = 0
    /\ UNCHANGED <<control, clock, headCount, recordingStatus, statusIndicator, motionStatus,
                   recordingsList, statusPending, statusStale, recordingsPending,
                   outputFolderDefined, uncaught>>

\* 1000 ms pass: every active timer becomes due
TimePasses ==
    /\ Ready
    /\ dueTimers' = activeTimers
    /\ quietInterval' = TRUE
    /\ Note("time")
    /\ issued' = 0
    /\ UNCHANGED <<control, display, recordingsList, statusPending, statusStale, recordingsPending,
                   outputFolderDefined, uncaught>>

\* a due timer created by line 35 fires: updateStatus is called
Tick ==
    /\ \E t \in dueTimers :
          /\ updateStatus
          /\ dueTimers' = dueTimers \ {t}
    /\ Note("tick")
    /\ UNCHANGED <<control, display, recordingsList, recordingsPending,
                   outputFolderDefined, uncaught>>

\* a continuation that discards the body of a fetch when polling has stopped
StatusResolved_DiscardsWhenStopped ==
    /\ statusPending > 0
    /\ statusPending' = statusPending - 1
    /\ \E i \in 1..statusPending :
          /\ statusStale' = StaleAfterApplying(i)
          /\ lastStale' = (i <= statusStale)
    /\ \E data \in StatusBodies :
          /\ IF isRunning THEN applyStatus(data) ELSE UNCHANGED display
          /\ lastData' = <<data>>
    /\ lastOp' = "statusResolved"
    /\ lastRecordings' = << >>
    /\ lastError' = ""
    /\ issued' = 0
    /\ UNCHANGED <<control, clock, recordingsList, recordingsPending,
                   outputFolderDefined, uncaught>>

\* a continuation that discards a body fetched before the one shown
StatusResolved_DropsStale ==
    /\ statusPending > 0
    /\ statusPending' = statusPending - 1
    /\ \E i \in 1..statusPending :
          /\ statusStale' = StaleAfterApplying(i)
          /\ lastStale' = (i <= statusStale)
          /\ \E data \in StatusBodies :
                /\ IF i <= statusStale THEN UNCHANGED display ELSE applyStatus(data)
                /\ lastData' = <<data>>
    /\ lastOp' = "statusResolved"
    /\ lastRecordings' = << >>
    /\ lastError' = ""
    /\ issued' = 0
    /\ UNCHANGED <<control, clock, recordingsList, recordingsPending,
                   outputFolderDefined, uncaught>>

\* a suspended updateStatus resumes with the parsed body (lines 50-68)
StatusResolved ==
    /\ statusPending > 0
    /\ statusPending' = statusPending - 1
    /\ \E i \in 1..statusPending :
          /\ statusStale' = StaleAfterApplying(i)
          /\ lastStale' = (i <= statusStale)
    /\ \E data \in StatusBodies :
          /\ applyStatus(data)
          /\ lastData' = <<data>>
    /\ lastOp' = "statusResolved"
    /\ lastRecordings' = << >>
    /\ lastError' = ""
    /\ issued' = 0
    /\ UNCHANGED <<control, clock, recordingsList, recordingsPending,
                   outputFolderDefined, uncaught>>

\* a catch block that gives up polling after a failure
StatusRejected_StopsPolling ==
    /\ statusPending > 0
    /\ statusPending' = statusPending - 1
    /\ \E i \in 1..statusPending : statusStale' = StaleAfterFailing(i)
    /\ lastStale' = FALSE
    /\ updateStatusCatch
    /\ stopStatusUpdates
    /\ \E e \in FetchFailures : lastError' = e
    /\ lastOp' = "statusRejected"
    /\ lastData' = << >>
    /\ lastRecordings' = << >>
    /\ issued' = 0
    /\ UNCHANGED <<isRunning, videoSrc, quietInterval, recordingsList, recordingsPending,
                   outputFolderDefined>>

\* a suspended updateStatus resumes in its catch block (lines 70-72)
StatusRejected ==
    /\ statusPending > 0
    /\ statusPending' = statusPending - 1
    /\ \E i \in 1..statusPending : statusStale' = StaleAfterFailing(i)
    /\ lastStale' = FALSE
    /\ updateStatusCatch
    /\ \E e \in FetchFailures : lastError' = e
    /\ lastOp' = "statusRejected"
    /\ lastData' = << >>
    /\ lastRecordings' = << >>
    /\ issued' = 0
    /\ UNCHANGED <<control, clock, recordingsList, recordingsPending,
                   outputFolderDefined>>

\* a suspended fetchRecordings resumes with the parsed array (lines 79-124)
RecordingsResolved ==
    /\ recordingsPending > 0
    /\ recordingsPending' = recordingsPending - 1
    /\ \E recordings \in RecordingsBodies :
          /\ recordingsList' = RenderRecordings(recordings, outputFolderDefined)
          /\ lastRecordings' = <<recordings>>
    /\ lastOp' = "recordingsResolved"
    /\ lastStale' = FALSE
    /\ lastData' = << >>
    /\ lastError' = ""
    /\ issued' = 0
    /\ UNCHANGED <<control, clock, display, statusPending, statusStale, outputFolderDefined,
                   uncaught>>

\* a catch block that also reports the failure in the status line
RecordingsRejected_ShowsConnectionError ==
    /\ recordingsPending > 0
    /\ recordingsPending' = recordingsPending - 1
    /\ \E e \in FetchFailures :
          /\ recordingsList' =
                fetchRecordingsCatch(IF e = "nulljson" THEN << >> ELSE recordingsList)
          /\ lastError' = e
    /\ statusText' = "Connection Error"
    /\ lastOp' = "recordingsRejected"
    /\ lastStale' = FALSE
    /\ lastData' = << >>
    /\ lastRecordings' = << >>
    /\ issued' = 0
    /\ UNCHANGED <<control, clock, headCount, recordingStatus, statusIndicator,
                   motionStatus, statusPending, statusStale, outputFolderDefined, uncaught>>

\* a suspended fetchRecordings resumes in its catch block (lines 121-124);
\* for the body null, line 82 has emptied the list before line 84 throws
RecordingsRejected ==
    /\ recordingsPending > 0
    /\ recordingsPending' = recordingsPending - 1
    /\ \E e \in FetchFailures :
          /\ recordingsList' =
                fetchRecordingsCatch(IF e = "nulljson" THEN << >> ELSE recordingsList)
          /\ lastError' = e
    /\ lastOp' = "recordingsRejected"
    /\ lastStale' = FALSE
    /\ lastData' = << >>
    /\ lastRecordings' = << >>
    /\ issued' = 0
    /\ UNCHANGED <<control, clock, display, statusPending, statusStale, outputFolderDefined,
                   uncaught>>

Next ==
    \/ init
    \/ startBtnClick
    \/ stopBtnClick
    \/ refreshBtnClick
    \/ videoFeedError
    \/ TimePasses
    \/ Tick
    \/ StatusResolved
    \/ StatusRejected
    \/ RecordingsResolved
    \/ RecordingsRejected

Spec == Init /\ [][Next]_vars

\* The scheduling the browser gives: line 172 runs, time passes, a due
\* timer's callback is run, and every fetch settles.
FairSpec ==
    /\ Spec
    /\ WF_vars(init)
    /\ WF_vars(TimePasses)
    /\ WF_vars(Tick)
    /\ WF_vars(StatusResolved \/ StatusRejected)

----------------------------------------------------------------------------
(* Claims *)

\* C1: after initialization, between event-loop tasks, the status poll
\* timer is active (statusInterval is not null, and the browser holds a
\* timer that will fire) if and only if isRunning is true.
C1_TimerIffRunning ==
    Ready => /\ (statusInterval # NULL) <=> isRunning
             /\ (activeTimers # {}) <=> isRunning
             /\ statusInterval # NULL => statusInterval \in activeTimers

\* C1 witness: a restart after a stop, so both directions have occurred
C1_Witness == lastOp = "start" /\ isRunning /\ statusInterval \in activeTimers

\* C2: after initialization, between tasks, the video source is the live
\* feed URL iff isRunning and the empty string iff not isRunning; only a
\* start or stop click that takes effect changes the video source.
C2_SourceIffRunning ==
    /\ [](Ready => /\ (videoSrc = VIDEO_FEED_URL) <=> isRunning
                   /\ (videoSrc = "") <=> ~isRunning)
    /\ [][Ready /\ videoSrc' # videoSrc => lastOp' \in {"start", "stop"}]_vars

\* C2 witness: a video error while stopped has left the blank source alone
C2_Witness == lastOp = "videoError" /\ ~isRunning /\ videoSrc = ""

\* C3: at the end of a stop click received while running: source blank,
\* timer cancelled, isRunning false, status text "Stopped", indicator class
\* "monitoring", label "Not Recording", head count "0", motion status
\* "System Stopped".
C3_StopEffect ==
    lastOp = "stop" =>
        /\ videoSrc = ""
        /\ statusInterval = NULL
        /\ activeTimers = {}
        /\ isRunning = FALSE
        /\ statusText = "Stopped"
        /\ statusIndicator = "status-indicator monitoring"
        /\ recordingStatus = "Not Recording"
        /\ headCount = "0"
        /\ motionStatus = "System Stopped"

\* C3 witness: a stop taken while a status fetch is still in flight
C3_Witness == lastOp = "stop" /\ statusPending > 0 /\ ~isRunning

\* C4: from a stop click that takes effect until the next start click that
\* takes effect, no task issues a status fetch.
C4_NoFetchWhileStopped == (Ready /\ ~isRunning) => issued = 0

\* C4 witness: an earlier fetch completes while stopped, issuing nothing
C4_Witness == ~isRunning /\ lastOp = "statusResolved" /\ issued = 0

\* C5: a start click received while stopped restores the live source, sets
\* isRunning, issues one status fetch in the handler and leaves the timer
\* of statusInterval active; while running a timer stays active and every
\* tick issues one status fetch.
C5_StartEffect ==
    /\ lastOp = "start" =>
          /\ videoSrc = VIDEO_FEED_URL
          /\ isRunning
          /\ issued = 1
          /\ statusInterval # NULL
          /\ statusInterval \in activeTimers
    /\ lastOp = "tick" => issued = 1 /\ isRunning
    /\ (Ready /\ isRunning) => activeTimers # {}

\* C5 witness: a tick that follows a restart
C5_Witness == lastOp = "tick" /\ issued = 1 /\ headCount = "0" /\ statusText = "Stopped"

\* C6 as stated: for every applied status response, recording true gives
\* label "Recording" and indicator class "recording", anything else gives
\* "Not Recording" and "monitoring"; head count, status text and motion
\* status are those of the response.
C6_RecordingTrueOnly ==
    lastOp = "statusResolved" =>
        LET data == lastData[1]
        IN /\ IF data.recording = JTrue
              THEN /\ recordingStatus = "Recording"
                   /\ statusIndicator = "status-indicator recording"
              ELSE /\ recordingStatus = "Not Recording"
                   /\ statusIndicator = "status-indicator monitoring"
           /\ headCount = NumberToString(data.headCount)
           /\ statusText = data.status
           /\ motionStatus = data.motionStatus

\* C6 amended: the label and the indicator class are determined by the
\* truthiness of the response's recording field alone (truthy: "Recording"
\* and "recording"; falsy: "Not Recording" and "monitoring"); head count,
\* status text and motion status are the text of the response's fields.
C6_RecordingTruthy ==
    lastOp = "statusResolved" =>
        LET data == lastData[1]
        IN /\ IF Truthy(data.recording)
              THEN /\ recordingStatus = "Recording"
                   /\ statusIndicator = "status-indicator recording"
              ELSE /\ recordingStatus = "Not Recording"
                   /\ statusIndicator = "status-indicator monitoring"
           /\ headCount = NumberToString(data.headCount)
           /\ statusText = data.status
           /\ motionStatus = data.motionStatus

\* C6 witness: a response whose recording field is the number 1 was applied
C6_Witness ==
    /\ lastOp = "statusResolved"
    /\ lastData[1].recording = JOne
    /\ recordingStatus = "Recording"
    /\ headCount = "2"

\* C7: a status fetch that fails changes none of head count, label,
\* indicator class, status text, motion status, isRunning and the timer,
\* and raises no error to its caller.
C7_StatusFailureKeepsDisplay ==
    [][lastOp' = "statusRejected" =>
          /\ UNCHANGED <<display, isRunning, statusInterval, activeTimers>>
          /\ uncaught' = FALSE]_vars

\* C7 witness: a body that is not JSON arrives while the display shows an
\* earlier response
C7_Witness ==
    /\ lastOp = "statusRejected"
    /\ lastError = "notjson"
    /\ recordingStatus = "Recording"
    /\ statusText = "Motion Detected"

\* C8: after a recordings fetch that fails (network error, or a body that
\* is not JSON) the list holds exactly the message "Error loading
\* recordings.", and no error has left fetchRecordings.
C8_RecordingsFailureMessage ==
    (lastOp = "recordingsRejected" /\ lastError \in {"network", "notjson"}) =>
        /\ recordingsList = <<Paragraph("Error loading recordings.")>>
        /\ uncaught = FALSE

\* C8 witness: the second of two recordings fetches fails on a non-JSON body
C8_Witness ==
    /\ lastOp = "recordingsRejected"
    /\ lastError = "notjson"
    /\ recordingsPending = 0
    /\ recordingsList = ErrorLoadingRecordings

\* C9: after a recordings fetch that succeeds with n >= 1 filenames the list
\* holds exactly n entries in the order of the response, each with a title
\* and a download target made of the output folder and its filename, and
\* not the error message.
C9_EntriesRendered ==
    (lastOp = "recordingsResolved" /\ Len(lastRecordings[1]) >= 1) =>
        LET recordings == lastRecordings[1]
        IN /\ Len(recordingsList) = Len(recordings)
           /\ \A i \in 1..Len(recordings) :
                 /\ recordingsList[i].tag = "div"
                 /\ recordingsList[i].title # << >>
                 /\ recordingsList[i].href = downloadHref(recordings[i])
           /\ recordingsList # ErrorLoadingRecordings

\* C10: after a recordings fetch that succeeds with an empty sequence the
\* list holds exactly the placeholder "No recordings found." and no entry.
C10_EmptyPlaceholder ==
    (lastOp = "recordingsResolved" /\ lastRecordings[1] = << >>) =>
        recordingsList = <<Paragraph("No recordings found.")>>

\* C10 witness: an empty response has been rendered
C10_Witness ==
    /\ lastOp = "recordingsResolved"
    /\ lastRecordings = << << >> >>
    /\ recordingsList = NoRecordingsFound

\* the entries of the list, when the last task rendered a response as entries
RenderedEntries ==
    /\ lastOp = "recordingsResolved"
    /\ Len(recordingsList) > 0
    /\ recordingsList[1].tag = "div"

\* "2024-01-15 14:30:22"
Title_20240115_143022 ==
    <<"2", "0", "2", "4", "-", "0", "1", "-", "1", "5", " ",
      "1", "4", ":", "3", "0", ":", "2", "2">>

\* a filename that is, as a whole, motion_<8 digits>_<6 digits>.avi
Conforms(f) == Len(f) = 26 /\ MatchAt(f, 1)

\* a filename that holds motion_<8 digits>_<6 digits>.avi somewhere
ContainsPattern(f) == \E i \in 1..Len(f) : MatchAt(f, i)

\* C11 as stated: the title of an entry is YYYY-MM-DD HH:MM:SS for a
\* filename of the form motion_<8 digits>_<6 digits>.avi, and the filename
\* itself for a filename not of that form.
C11_TitleOfConforming ==
    RenderedEntries =>
        \A i \in 1..Len(recordingsList) :
            LET f == lastRecordings[1][i]
            IN /\ f = F_motion => recordingsList[i].title = Title_20240115_143022
               /\ ~Conforms(f) => recordingsList[i].title = f

\* C11 amended: the title is YYYY-MM-DD HH:MM:SS, from the digits of the
\* leftmost occurrence, for a filename that contains
\* motion_<8 digits>_<6 digits>.avi anywhere in it, and the filename itself
\* for a filename that contains no such occurrence.
C11_TitleOfContaining ==
    RenderedEntries =>
        \A i \in 1..Len(recordingsList) :
            LET f == lastRecordings[1][i]
            IN /\ f \in {F_motion, F_backup} =>
                     recordingsList[i].title = Title_20240115_143022
               /\ ~ContainsPattern(f) => recordingsList[i].title = f

\* C11 witness: a conforming name and a plain name rendered side by side
C11_Witness ==
    /\ RenderedEntries
    /\ lastRecordings[1] = <<F_clip, F_motion>>
    /\ recordingsList[1].title = F_clip
    /\ recordingsList[2].title = Title_20240115_143022

\* C12: a video error sets the status text to "Connection Error" and leaves
\* isRunning, the timer, the video source, head count, label, indicator
\* class, motion status and the recordings list unchanged, running or not.
C12_VideoErrorFrame ==
    [][lastOp' = "videoError" =>
          /\ statusText' = "Connection Error"
          /\ UNCHANGED <<isRunning, statusInterval, activeTimers, videoSrc, headCount,
                         recordingStatus, statusIndicator, motionStatus,
                         recordingsList>>]_vars

\* C12 witness: a video error while running, over the values of a response
C12_Witness ==
    /\ lastOp = "videoError"
    /\ isRunning
    /\ statusInterval \in activeTimers
    /\ statusText = "Connection Error"
    /\ recordingStatus = "Recording"

\* what the display shows when the body data has been applied
Shown(data) ==
    <<NumberToString(data.headCount),
      IF Truthy(data.recording) THEN "Recording" ELSE "Not Recording",
      IF Truthy(data.recording) THEN "status-indicator recording"
                                ELSE "status-indicator monitoring",
      data.status,
      data.motionStatus>>

\* stopped, timer cancelled, and the display shows a response
LateRepaint ==
    /\ Ready
    /\ ~isRunning
    /\ statusInterval = NULL
    /\ activeTimers = {}
    /\ \E data \in StatusBodies : display = Shown(data)

\* a response that resolves while stopped is applied
LateResponseApplied ==
    (lastOp = "statusResolved" /\ ~isRunning) =>
        /\ statusInterval = NULL
        /\ activeTimers = {}
        /\ display = Shown(lastData[1])

C14_DisjointRegions ==
    [][/\ lastOp' \in {"statusResolved", "statusRejected"} =>
             recordingsList' = recordingsList
       /\ lastOp' \in {"recordingsResolved", "recordingsRejected"} =>
             UNCHANGED <<display, videoSrc, isRunning, statusInterval, activeTimers>>]_vars

\* C14 witness: a recordings fetch failed after a status response was
\* applied, both having been in flight since initialization
C14_Witness ==
    /\ lastOp = "recordingsRejected"
    /\ recordingsList = ErrorLoadingRecordings
    /\ display = Shown([headCount |-> 2, recording |-> JTrue,
                        status |-> "Motion Detected",
                        motionStatus |-> "Motion Detected"])
    /\ statusPending = 0
    /\ recordingsPending = 0

\* C15 as stated: at most one poll timer is active, it is the one recorded
\* in statusInterval, and no status fetch is issued within a tick interval
\* of another.
C15_OneFetchPerInterval ==
    /\ [](Ready => /\ Cardinality(activeTimers) <= 1
                   /\ activeTimers \subseteq {statusInterval})
    /\ [][statusPending' = statusPending + 1 => quietInterval]_vars

\* C15 amended: at most one poll timer is active, it is the one recorded in
\* statusInterval, and no timer tick issues a status fetch within a tick
\* interval of another status fetch (an effective start click issues one
\* more at once, whenever it comes).
C15_OneTimer ==
    /\ [](Ready => /\ Cardinality(activeTimers) <= 1
                   /\ activeTimers \subseteq {statusInterval})
    /\ [][lastOp' = "tick" => (quietInterval /\ statusPending' = statusPending + 1)]_vars

\* C15 witness: the one timer of a restart has fired
C15_Witness ==
    /\ lastOp = "tick"
    /\ statusText = "Stopped"
    /\ activeTimers = {statusInterval}
    /\ dueTimers = {}

\* C16: a start click while running and a stop click while stopped change
\* nothing: not the video source, the timer, isRunning, any display region
\* or the list, and no status fetch is issued.
C16_GuardedClicks ==
    [][(Ready /\ (\/ isRunning /\ lastOp' \in {"start", "startNoop"}
                  \/ ~isRunning /\ lastOp' \in {"stop", "stopNoop"})) =>
          /\ UNCHANGED <<control, clock, display, recordingsList, statusPending, statusStale,
                         recordingsPending>>
          /\ issued' = 0]_vars

\* C16 witness: a stop click on a stopped dashboard that a late response
\* has repainted
C16_Witness ==
    /\ lastOp = "stopNoop"
    /\ ~isRunning
    /\ recordingStatus = "Recording"
    /\ statusText = "Motion Detected"

\* C18: once the script has written the label or the indicator, the label
\* is "Recording" exactly when the indicator class is "recording", and
\* "Not Recording" exactly when it is "monitoring".
C18_LabelMatchesIndicator ==
    (recordingStatus # MARKUP \/ statusIndicator # MARKUP) =>
        /\ recordingStatus \in {"Recording", "Not Recording"}
        /\ statusIndicator \in {"status-indicator recording",
                                "status-indicator monitoring"}
        /\ (recordingStatus = "Recording") <=>
               (statusIndicator = "status-indicator recording")

\* C18 witness: a stop over a display that showed "Recording"; a late
\* response showed it again
C18_Witness ==
    /\ ~isRunning
    /\ lastOp = "statusResolved"
    /\ recordingStatus = "Recording"
    /\ statusIndicator = "status-indicator recording"
    /\ statusPending = 0

\* the entries of a response, all of them, in order
FullEntries(recordings) ==
    [i \in 1..Len(recordings) |->
        [tag |-> "div", text |-> "", title |-> dateStr(recordings[i]),
         href |-> downloadHref(recordings[i])]]

\* C19: between tasks the list is the rendering of exactly one response:
\* all its entries, the placeholder alone or the error message alone (or
\* the page's markup, before the first response); the response that
\* resolved last is the one shown.
C19_OneResponseShown ==
    Ready =>
        /\ \/ recordingsList = <<Paragraph(MARKUP)>>
           \/ recordingsList = <<Paragraph("No recordings found.")>>
           \/ recordingsList = <<Paragraph("Error loading recordings.")>>
           \/ \E r \in RecordingsBodies : Len(r) > 0 /\ recordingsList = FullEntries(r)
        /\ lastOp = "recordingsRejected" =>
              recordingsList = <<Paragraph("Error loading recordings.")>>
        /\ lastOp = "recordingsResolved" =>
              \/ recordingsList = <<Paragraph("No recordings found.")>>
                 /\ lastRecordings[1] = << >>
              \/ recordingsList = <<Paragraph("Error loading recordings.")>>
                 /\ lastRecordings[1] # << >>
              \/ recordingsList = FullEntries(lastRecordings[1])
                 /\ lastRecordings[1] # << >>

\* C19 witness: one of two fetches in flight has been rendered over the
\* entries of an earlier response
C19_Witness ==
    /\ lastOp = "recordingsResolved"
    /\ recordingsPending = 1
    /\ lastRecordings[1] = <<F_clip, F_motion>>
    /\ recordingsList = FullEntries(<<F_clip, F_motion>>)

\* the display shows a response
ResponseShown == Ready /\ \E data \in StatusBodies : display = Shown(data)

\* the last task applied the body of the earlier-issued of two overlapping
\* fetches, after the body of the later-issued one
OlderShown == lastOp = "statusResolved" /\ lastStale

\* every body that resolves is applied, whenever its fetch was issued
ResolvedIsApplied == lastOp = "statusResolved" => display = Shown(lastData[1])

\* C20 as stated: responses are applied in the order they resolve; when the
\* earlier-issued of two overlapping fetches resolves last the display
\* shows its snapshot, and keeps showing it until another response is
\* applied or a stop takes effect.
C20_OlderShownUntilResponseOrStop ==
    /\ []ResolvedIsApplied
    /\ [][(OlderShown /\ lastOp' \notin {"statusResolved", "stop"}) =>
             display' = display]_vars

\* C20 amended: responses are applied in the order they resolve; when the
\* earlier-issued of two overlapping fetches resolves last the display
\* shows its snapshot, and keeps showing it until another response is
\* applied, a stop takes effect, or a video error overwrites the status
\* text (as does every response the display shows).
C20_OlderShownUntilOverwritten ==
    /\ []ResolvedIsApplied
    /\ [][(ResponseShown /\ lastOp' \notin {"statusResolved", "stop", "videoError"}) =>
             display' = display]_vars

\* C20 witness: of two overlapping fetches the earlier-issued resolved last
\* and its body is what the display shows
C20_Witness ==
    /\ lastOp = "statusResolved"
    /\ lastStale
    /\ statusPending = 0
    /\ isRunning
    /\ display = Shown(lastData[1])
    /\ headCount = "0"

\* C17: no failure stops the polling: a failed status fetch, a failed
\* recordings fetch and a video error leave isRunning and the timer alone;
\* every tick issues a status fetch; unless a stop click takes effect,
\* ticks occur, and fetches are issued, infinitely often; a response that
\* resolves after a failure is applied.
C17_PollingSurvivesFailures ==
    /\ [][lastOp' \in {"statusRejected", "recordingsRejected", "videoError"} =>
             UNCHANGED <<isRunning, statusInterval, activeTimers, dueTimers>>]_vars
    /\ [](lastOp = "tick" => issued = 1)
    /\ []ResolvedIsApplied
    /\ (<>[]isRunning => []<>(lastOp = "tick" /\ issued = 1))

\* C17 witness: a tick issues a fetch after a video error and a failed
\* recordings fetch
C17_Witness ==
    /\ lastOp = "tick"
    /\ issued = 1
    /\ statusText = "Connection Error"
    /\ recordingsList = ErrorLoadingRecordings

====
